---- MODULE Spec2Model ----
(***************************************************************************)
(* The search/approval chatbot of src/src/pdf_agent/chat.py: a two-node    *)
(* state graph (chatbot, tools) compiled with an in-memory checkpointer,   *)
(* driven by graph.stream with either a new user message or a resume       *)
(* command, for a set of thread identifiers; and the WatsonX model adapter *)
(* of src/ref/watsonx_integration.py: message conversion, response         *)
(* decoding and the streamed response.                                     *)
(***************************************************************************)
EXTENDS Integers, Sequences, FiniteSets, TLC

\* Bounds of the model: caller inputs, resume commands and model calls
\* taken over the whole run.
MaxInputs == 2
MaxResumes == 2
MaxCalls == 2

\* Bounds of the adapter: messages per request, chunks per stream.
MaxMessages == 2
MaxChunks == 3

\* Bounds of the token provider and of the database: calls of
\* fetch_gcp_id_token, and sessions opened.
MaxFetches == 2
MaxSessions == 2

\* Bound of a turn: the tool rounds a model may ask for before it answers.
MaxRounds == 13

\* config has no recursion_limit: a stream call gets the default of the
\* library, in supersteps.
RecursionLimit == 25

\* thread_id values a caller may put in config["configurable"].
Threads == {"t1", "t2"}

START == "__start__"
END == "__end__"
Nodes == {"chatbot", "tools"}

VARIABLES
    memory,   \* MemorySaver: checkpoint key -> latest checkpoint
    thread,   \* per thread id: the graph.stream call in progress, if any
    inputs,   \* caller inputs streamed so far
    resumes,  \* resume commands streamed so far
    calls,    \* model calls made so far
    adapter,  \* WatsonXAgentModel.request: the call made and its outcome
    streamed, \* WatsonXStreamedResponse: the object and what it yielded
    provider, \* fetch_gcp_id_token: the environment and the calls made
    db,       \* DatabaseSession: the sessions handed out and their calls
    turn      \* the turn under way: what the model will do, supersteps done

vars ==
    <<memory, thread, inputs, resumes, calls, adapter, streamed, provider, db,
      turn>>

\* No request made yet; no streamed response created yet.
NoCall == [op |-> "none"]

NoStream == [op |-> "none"]

\* The token provider before any call, with nothing set in the environment.
NoFetch ==
    [environ |-> <<>>, requests |-> <<>>, fetches |-> 0, last |-> <<>>]

\* No turn started yet.
NoTurn == [left |-> 0, call |-> <<>>, steps |-> 0]

\* The database with no session opened yet.
NoSession == [sessions |-> <<>>, pc |-> "idle", error |-> "none"]

----------------------------------------------------------------------------
\* Dictionaries (Python dict / TypedDict with optional keys)

Get(d, k, default) == IF k \in DOMAIN d THEN d[k] ELSE default

Last(s) == s[Len(s)]

----------------------------------------------------------------------------
\* Messages

NoId == <<>>

HumanMessage(content, id) ==
    [type |-> "human", content |-> content, id |-> id,
     tool_calls |-> <<>>, tool_call_id |-> NoId]

AIMessage(content, tool_calls, id) ==
    [type |-> "ai", content |-> content, id |-> id,
     tool_calls |-> tool_calls, tool_call_id |-> NoId]

ToolMessage(content, tool_call_id, id) ==
    [type |-> "tool", content |-> content, id |-> id,
     tool_calls |-> <<>>, tool_call_id |-> tool_call_id,
     status |-> "success"]

\* The message ToolNode builds from an exception it handles.
ToolErrorMessage(error, tool_call_id, id) ==
    [type |-> "tool",
     content |-> <<"Error: ", error, " Please fix your mistakes.">>,
     id |-> id, tool_calls |-> <<>>, tool_call_id |-> tool_call_id,
     status |-> "error"]

\* Variant: messages declared as a plain list, so an update overwrites it.
overwrite_messages(left, right) == right

\* The reducer of State.messages: a message whose id is already in the
\* list replaces that entry, any other message is appended.
RECURSIVE add_messages(_, _)
add_messages(left, right) ==
    IF right = <<>> THEN left
    ELSE LET m == Head(right)
             hit == {i \in 1..Len(left) : left[i].id = m.id}
             merged == IF hit = {}
                       THEN Append(left, m)
                       ELSE [i \in 1..Len(left) |->
                               IF i \in hit THEN m ELSE left[i]]
         IN add_messages(merged, Tail(right))

\* Applying a node's (or the input's) update to the channels of State:
\* messages goes through its reducer, name and birthday are overwritten.
ApplyUpdate(values, update) ==
    [k \in DOMAIN values \cup DOMAIN update |->
        IF k = "messages"
        THEN add_messages(Get(values, "messages", <<>>),
                          Get(update, "messages", <<>>))
        ELSE IF k \in DOMAIN update THEN update[k] ELSE values[k]]

----------------------------------------------------------------------------
\* Strings that the code inspects character by character

Lower(c) == IF c = "Y" THEN "y" ELSE IF c = "N" THEN "n" ELSE c

lower(s) == [i \in 1..Len(s) |-> Lower(s[i])]

startswith(s, c) == Len(s) >= 1 /\ s[1] = c

----------------------------------------------------------------------------
\* What the outside world can supply

UserInputs == {<<"question">>}

\* Resume payloads: dictionaries with any of the keys correct, name,
\* birthday.
CorrectValues == {<<"Y", "e", "s">>, <<"n", "o">>}

ResumePayloads ==
    LET Keys == {"correct", "name", "birthday"}
        Val(k, c) == IF k = "correct" THEN c
                     ELSE IF k = "name" THEN "n2" ELSE "b2"
    IN {[k \in ks |-> Val(k, c)] : ks \in SUBSET Keys, c \in CorrectValues}

\* Tool calls the model can put in a reply.
SearchCall == [name |-> "duckduckgo_search", args |-> [query |-> "q"]]

ApprovalCall == [name |-> "human_assistance",
                 args |-> [name |-> "n1", birthday |-> "b1"]]

\* Replies of llm_with_tools.invoke: plain text, one tool call, or two.
Replies ==
    {[content |-> <<"answer">>, tool_calls |-> <<>>],
     [content |-> <<>>, tool_calls |-> <<SearchCall>>],
     [content |-> <<>>, tool_calls |-> <<ApprovalCall>>],
     [content |-> <<>>, tool_calls |-> <<ApprovalCall, ApprovalCall>>]}

----------------------------------------------------------------------------
\* Nodes and tools

\* Variant: interrupt that ignores the resume value of the run.
interrupt_always(value, resume) ==
    [interrupted |-> TRUE, value |-> value]

\* interrupt(value): raises GraphInterrupt unless the run carries a resume
\* value, which it then returns.
interrupt(value, resume) ==
    IF resume = <<>>
    THEN [interrupted |-> TRUE, value |-> value]
    ELSE [interrupted |-> FALSE, value |-> resume[1]]

\* Variant: the confirmation test without .lower().
human_assistance_case_sensitive(name, birthday, tool_call_id, resume, id) ==
    LET asked == interrupt([question |-> "Is this correct?",
                            name |-> name, birthday |-> birthday], resume)
        human_response == asked.value
        yes == startswith(Get(human_response, "correct", <<>>), "y")
        verified_name == IF yes THEN name
                         ELSE Get(human_response, "name", name)
        verified_birthday == IF yes THEN birthday
                             ELSE Get(human_response, "birthday", birthday)
        response == IF yes THEN <<"Correct">>
                    ELSE <<"Made a correction: ", human_response>>
    IN IF asked.interrupted
       THEN [kind |-> "interrupt", id |-> tool_call_id, value |-> asked.value]
       ELSE [kind |-> "update",
             update |-> [name |-> verified_name,
                         birthday |-> verified_birthday,
                         messages |-> <<ToolMessage(response, tool_call_id, id)>>]]

\* Variant: the correction path keeps the proposed name and birthday.
human_assistance_keeps_proposed(name, birthday, tool_call_id, resume, id) ==
    LET asked == interrupt([question |-> "Is this correct?",
                            name |-> name, birthday |-> birthday], resume)
        human_response == asked.value
        yes == startswith(lower(Get(human_response, "correct", <<>>)), "y")
        response == IF yes THEN <<"Correct">>
                    ELSE <<"Made a correction: ", human_response>>
    IN IF asked.interrupted
       THEN [kind |-> "interrupt", id |-> tool_call_id, value |-> asked.value]
       ELSE [kind |-> "update",
             update |-> [name |-> name,
                         birthday |-> birthday,
                         messages |-> <<ToolMessage(response, tool_call_id, id)>>]]

human_assistance(name, birthday, tool_call_id, resume, id) ==
    LET asked == interrupt([question |-> "Is this correct?",
                            name |-> name, birthday |-> birthday], resume)
        human_response == asked.value
        yes == startswith(lower(Get(human_response, "correct", <<>>)), "y")
        verified_name == IF yes THEN name
                         ELSE Get(human_response, "name", name)
        verified_birthday == IF yes THEN birthday
                             ELSE Get(human_response, "birthday", birthday)
        response == IF yes THEN <<"Correct">>
                    ELSE <<"Made a correction: ", human_response>>
    IN IF asked.interrupted
       THEN [kind |-> "interrupt", id |-> tool_call_id, value |-> asked.value]
       ELSE [kind |-> "update",
             update |-> [name |-> verified_name,
                         birthday |-> verified_birthday,
                         messages |-> <<ToolMessage(response, tool_call_id, id)>>]]

web_search(query, tool_call_id, id) ==
    [kind |-> "update",
     update |-> [messages |->
                   <<ToolMessage(<<"results for ", query>>, tool_call_id, id)>>]]

\* Variant: chatbot without its assertion on the number of tool calls.
chatbot_unasserted(state, reply, id) ==
    [raised |-> FALSE,
     update |-> [messages |->
                   <<AIMessage(reply.content,
                               [i \in 1..Len(reply.tool_calls) |->
                                  [name |-> reply.tool_calls[i].name,
                                   args |-> reply.tool_calls[i].args,
                                   id |-> id \o <<i>>]],
                               id)>>]]

\* chatbot(state): one model call; the reply becomes an AIMessage with a
\* fresh id and fresh tool-call ids.
chatbot(state, reply, id) ==
    LET message == AIMessage(reply.content,
                             [i \in 1..Len(reply.tool_calls) |->
                                [name |-> reply.tool_calls[i].name,
                                 args |-> reply.tool_calls[i].args,
                                 id |-> id \o <<i>>]],
                             id)
    IN IF Len(message.tool_calls) <= 1
       THEN [raised |-> FALSE, update |-> [messages |-> <<message>>]]
       ELSE [raised |-> TRUE, update |-> <<>>]

\* ToolNode(tools): runs every tool call of the last message.
RunTool(call, resume, id) ==
    IF call.name = "human_assistance"
    THEN human_assistance(call.args.name, call.args.birthday, call.id,
                          resume, id)
    ELSE web_search(call.args.query, call.id, id)

RECURSIVE ApplyAll(_, _)
ApplyAll(values, outs) ==
    IF outs = <<>> THEN values
    ELSE ApplyAll(ApplyUpdate(values, Head(outs).update), Tail(outs))

\* Variant: the approval tool stores the proposed name and birthday before
\* it asks the human.
tool_node_early_write(state, resume, id) ==
    LET msgs == Get(state, "messages", <<>>)
        tool_calls == IF msgs = <<>> THEN <<>> ELSE Last(msgs).tool_calls
        outs == [i \in 1..Len(tool_calls) |->
                    RunTool(tool_calls[i], resume, id \o <<i>>)]
        stopped == {i \in 1..Len(outs) : outs[i].kind = "interrupt"}
        first == CHOOSE i \in stopped : \A j \in stopped : i <= j
    IN IF stopped # {}
       THEN [interrupted |-> TRUE,
             values |-> ApplyUpdate(state,
                          [name |-> tool_calls[first].args.name,
                           birthday |-> tool_calls[first].args.birthday]),
             interrupts |-> {[id |-> outs[i].id, value |-> outs[i].value] :
                                i \in stopped}]
       ELSE [interrupted |-> FALSE, values |-> ApplyAll(state, outs),
             interrupts |-> {}]

tool_node(state, resume, id) ==
    LET msgs == Get(state, "messages", <<>>)
        tool_calls == IF msgs = <<>> THEN <<>> ELSE Last(msgs).tool_calls
        outs == [i \in 1..Len(tool_calls) |->
                    RunTool(tool_calls[i], resume, id \o <<i>>)]
        stopped == {i \in 1..Len(outs) : outs[i].kind = "interrupt"}
    IN IF stopped # {}
       THEN [interrupted |-> TRUE, values |-> state,
             interrupts |-> {[id |-> outs[i].id, value |-> outs[i].value] :
                                i \in stopped}]
       ELSE [interrupted |-> FALSE, values |-> ApplyAll(state, outs),
             interrupts |-> {}]

\* Variant: a router that never selects the tools node.
tools_condition_never(state) == END

\* Variant: a router that always selects the tools node.
tools_condition_always(state) == "tools"

\* tools_condition: route on the last message of the state.
tools_condition(state) ==
    LET msgs == Get(state, "messages", <<>>)
    IN IF msgs # <<>> /\ Len(Last(msgs).tool_calls) > 0
       THEN "tools" ELSE END

----------------------------------------------------------------------------
\* The graph

\* Variants: no edge back from tools; an extra entry edge into tools.
EdgesToolsToEnd == {<<START, "chatbot">>}

EdgesStartBoth ==
    {<<START, "chatbot">>, <<START, "tools">>, <<"tools", "chatbot">>}

Edges == {<<START, "chatbot">>, <<"tools", "chatbot">>}

ConditionalEdges == {"chatbot"}

\* Nodes scheduled after node n has written its update.
Successors(n, values) ==
    ({e[2] : e \in {d \in Edges : d[1] = n}}
       \cup (IF n \in ConditionalEdges THEN {tools_condition(values)} ELSE {}))
    \ {END}

----------------------------------------------------------------------------
\* The checkpointer and one thread's view of it

\* Variant: every call saved under the same key, whatever its thread id.
SharedKey(t) == "t1"

\* MemorySaver keys a checkpoint by config["configurable"]["thread_id"].
CheckpointKey(t) == t

Put(store, key, cp) ==
    [k \in DOMAIN store \cup {key} |-> IF k = key THEN cp ELSE store[k]]

IdleRun ==
    [control |-> "caller", outcome |-> "none", running |-> {},
     resume |-> <<>>, ids |-> 0]

\* What a call for thread id t works on: the checkpoint saved under its
\* key, if any, and the state of its own graph.stream call.
Local(t) ==
    [saved |-> IF CheckpointKey(t) \in DOMAIN memory
               THEN <<memory[CheckpointKey(t)]>> ELSE <<>>,
     run |-> thread[t]]

Commit(t, l) ==
    /\ memory' = IF l.saved = <<>> THEN memory
                 ELSE Put(memory, CheckpointKey(t), l.saved[1])
    /\ thread' = [thread EXCEPT ![t] = l.run]

NextId(l) == <<l.run.ids + 1>>

----------------------------------------------------------------------------
\* Steps of one thread, as functions of its local state

\* graph.stream({"messages": [user message]}, config): the input is
\* written to the channels, unfinished tasks and interrupts of the previous
\* checkpoint are discarded, and the run starts from START.
StreamSteps(l) ==
    IF l.run.control # "caller" THEN {}
    ELSE {LET old == IF l.saved = <<>> THEN <<>> ELSE l.saved[1].values
              values == ApplyUpdate(old,
                          [messages |-> <<HumanMessage(content, NextId(l))>>])
          IN [saved |-> <<[values |-> values,
                           next |-> Successors(START, values),
                           interrupts |-> {}]>>,
              run |-> [l.run EXCEPT !.control = "graph",
                                    !.outcome = "none",
                                    !.resume = <<>>,
                                    !.ids = @ + 1]]
          : content \in UserInputs}

\* graph.stream(Command(resume=payload), config): the run continues from
\* the tasks of the saved checkpoint. The resume value is held for the
\* tasks of that first step only: the next checkpoint drops it. Only a
\* task with a pending interrupt reads it; with none pending it is lost.
ResumeSteps(l) ==
    IF l.run.control # "caller" \/ l.saved = <<>> THEN {}
    ELSE {[l EXCEPT !.run.control = "graph",
                    !.run.outcome = "none",
                    !.run.resume = IF l.saved[1].interrupts = {}
                                   THEN <<>> ELSE <<payload>>]
          : payload \in ResumePayloads}

\* Variant: scheduled nodes start whether or not a stream call is under way.
BeginInBackgroundSteps(l, n) ==
    IF l.saved = <<>> THEN {}
    ELSE IF n \notin l.saved[1].next \/ n \in l.run.running THEN {}
    ELSE {[l EXCEPT !.run.running = @ \cup {n}]}

\* A scheduled node starts.
BeginSteps(l, n) ==
    IF l.run.control # "graph" \/ l.saved = <<>> THEN {}
    ELSE IF n \notin l.saved[1].next \/ n \in l.run.running THEN {}
    ELSE {[l EXCEPT !.run.running = @ \cup {n}]}

\* chatbot returns its update, or its assertion fails and the run ends with
\* the error, the checkpoint left as it was.
ChatbotSteps(l) ==
    IF "chatbot" \notin l.run.running THEN {}
    ELSE {LET cp == l.saved[1]
              res == chatbot(cp.values, reply, NextId(l))
              values == ApplyUpdate(cp.values, res.update)
          IN IF res.raised
             THEN [l EXCEPT !.run.control = "caller",
                            !.run.outcome = "AssertionError",
                            !.run.running = {},
                            !.run.resume = <<>>]
             ELSE [saved |-> <<[values |-> values,
                                next |-> (cp.next \ {"chatbot"})
                                           \cup Successors("chatbot", values),
                                interrupts |-> {}]>>,
                   run |-> [l.run EXCEPT !.running = @ \ {"chatbot"},
                                         !.resume = <<>>,
                                         !.ids = @ + 1]]
          : reply \in Replies}

\* Variant: a failed model call is retried inside the run.
ChatbotFailRetrySteps(l) ==
    IF "chatbot" \notin l.run.running THEN {}
    ELSE {[l EXCEPT !.run.running = {}]}

\* llm_with_tools.invoke raises: the run ends with the error.
ChatbotFailSteps(l) ==
    IF "chatbot" \notin l.run.running THEN {}
    ELSE {[l EXCEPT !.run.control = "caller",
                    !.run.outcome = "ModelError",
                    !.run.running = {},
                    !.run.resume = <<>>]}

\* tools returns its update, or a tool interrupts and the run goes back to
\* the caller with the interrupt recorded against the checkpoint.
ToolsSteps(l) ==
    IF "tools" \notin l.run.running THEN {}
    ELSE {LET cp == l.saved[1]
              res == tool_node(cp.values, l.run.resume, NextId(l))
          IN IF res.interrupted
             THEN [saved |-> <<[cp EXCEPT !.values = res.values,
                                          !.interrupts = res.interrupts]>>,
                   run |-> [l.run EXCEPT !.control = "caller",
                                         !.outcome = "interrupt",
                                         !.running = {}]]
             ELSE [saved |-> <<[values |-> res.values,
                                next |-> (cp.next \ {"tools"})
                                           \cup Successors("tools", res.values),
                                interrupts |-> {}]>>,
                   run |-> [l.run EXCEPT !.running = @ \ {"tools"},
                                         !.resume = <<>>,
                                         !.ids = @ + 1]]}

\* What ToolNode(tools=tools) does with an exception of a tool is its
\* handle_tool_errors default, which the code leaves to the installed
\* library: LangGraph before 1.0 turns it into an error tool message,
\* LangGraph 1.0 raises it again.
ToolErrorDefaults == {"message", "raise"}

\* Variant: a tool error is swallowed and the run goes on to chatbot.
ToolsFailSilentSteps(l) ==
    IF "tools" \notin l.run.running THEN {}
    ELSE LET cp == l.saved[1]
             msgs == Get(cp.values, "messages", <<>>)
             tool_calls == IF msgs = <<>> THEN <<>> ELSE Last(msgs).tool_calls
         IN IF \A i \in 1..Len(tool_calls) :
                   tool_calls[i].name # "duckduckgo_search"
            THEN {}
            ELSE {[saved |-> <<[values |-> cp.values,
                                next |-> (cp.next \ {"tools"})
                                           \cup Successors("tools", cp.values),
                                interrupts |-> {}]>>,
                   run |-> [l.run EXCEPT !.running = @ \ {"tools"},
                                         !.resume = <<>>]]}

\* The search tool raises inside the tools node: the exception becomes the
\* tool message of its call and the run goes on, or it ends the run.
ToolsFailSteps(l) ==
    IF "tools" \notin l.run.running THEN {}
    ELSE LET cp == l.saved[1]
             msgs == Get(cp.values, "messages", <<>>)
             tool_calls == IF msgs = <<>> THEN <<>> ELSE Last(msgs).tool_calls
             failed == {i \in 1..Len(tool_calls) :
                          tool_calls[i].name = "duckduckgo_search"}
         IN IF failed = {} \/ Len(tool_calls) # 1 THEN {}
            ELSE {IF default = "message"
                  THEN LET values ==
                             ApplyUpdate(cp.values,
                               [messages |->
                                  <<ToolErrorMessage("DuckDuckGoSearchException",
                                       tool_calls[1].id,
                                       NextId(l) \o <<1>>)>>])
                       IN [saved |-> <<[values |-> values,
                                        next |-> (cp.next \ {"tools"})
                                           \cup Successors("tools", values),
                                        interrupts |-> {}]>>,
                           run |-> [l.run EXCEPT !.running = @ \ {"tools"},
                                                 !.resume = <<>>,
                                                 !.ids = @ + 1]]
                  ELSE [l EXCEPT !.run.control = "caller",
                                 !.run.outcome = "ToolError",
                                 !.run.running = {},
                                 !.run.resume = <<>>]
                  : default \in ToolErrorDefaults}

\* No task is left: the stream ends and control returns to the caller.
EndSteps(l) ==
    IF l.run.control # "graph" \/ l.saved = <<>> THEN {}
    ELSE IF l.saved[1].next # {} \/ l.run.running # {} THEN {}
    ELSE {[l EXCEPT !.run.control = "caller",
                    !.run.outcome = "end",
                    !.run.resume = <<>>]}

----------------------------------------------------------------------------
\* The system

Init ==
    /\ memory = <<>>
    /\ thread = [t \in Threads |-> IdleRun]
    /\ inputs = 0
    /\ resumes = 0
    /\ calls = 0
    /\ adapter = NoCall
    /\ streamed = NoStream
    /\ provider = NoFetch
    /\ db = NoSession
    /\ turn = NoTurn

Stream(t) ==
    /\ inputs < MaxInputs
    /\ \E l \in StreamSteps(Local(t)) : Commit(t, l)
    /\ inputs' = inputs + 1
    /\ UNCHANGED <<resumes, calls>>

Resume(t) ==
    /\ resumes < MaxResumes
    /\ \E l \in ResumeSteps(Local(t)) : Commit(t, l)
    /\ resumes' = resumes + 1
    /\ UNCHANGED <<inputs, calls>>

BeginChatbot(t) ==
    /\ calls < MaxCalls
    /\ \E l \in BeginSteps(Local(t), "chatbot") : Commit(t, l)
    /\ calls' = calls + 1
    /\ UNCHANGED <<inputs, resumes>>

BeginTools(t) ==
    /\ \E l \in BeginSteps(Local(t), "tools") : Commit(t, l)
    /\ UNCHANGED <<inputs, resumes, calls>>

Chatbot(t) ==
    /\ \E l \in ChatbotSteps(Local(t)) : Commit(t, l)
    /\ UNCHANGED <<inputs, resumes, calls>>

ChatbotFail(t) ==
    /\ \E l \in ChatbotFailSteps(Local(t)) : Commit(t, l)
    /\ UNCHANGED <<inputs, resumes, calls>>

Tools(t) ==
    /\ \E l \in ToolsSteps(Local(t)) : Commit(t, l)
    /\ UNCHANGED <<inputs, resumes, calls>>

ToolsFail(t) ==
    /\ \E l \in ToolsFailSteps(Local(t)) : Commit(t, l)
    /\ UNCHANGED <<inputs, resumes, calls>>

EndRun(t) ==
    /\ \E l \in EndSteps(Local(t)) : Commit(t, l)
    /\ UNCHANGED <<inputs, resumes, calls>>

Next ==
    /\ UNCHANGED <<adapter, streamed, provider, db, turn>>
    /\ \E t \in Threads :
        \/ Stream(t)
        \/ Resume(t)
        \/ BeginChatbot(t)
        \/ BeginTools(t)
        \/ Chatbot(t)
        \/ ChatbotFail(t)
        \/ Tools(t)
        \/ ToolsFail(t)
        \/ EndRun(t)

Spec == Init /\ [][Next]_vars
----------------------------------------------------------------------------
\* Observations used by the properties

Saved(t) == Local(t).saved

Values(t) == IF Saved(t) = <<>> THEN <<>> ELSE Saved(t)[1].values

Transcript(t) == Get(Values(t), "messages", <<>>)

NextNodes(t) == IF Saved(t) = <<>> THEN {} ELSE Saved(t)[1].next

Pending(t) == IF Saved(t) = <<>> THEN {} ELSE Saved(t)[1].interrupts

IsPrefix(s, r) == Len(s) <= Len(r) /\ \A i \in 1..Len(s) : s[i] = r[i]

IsToolRequest(m) == m.type = "ai" /\ m.tool_calls # <<>>

\* The step just taken is node n of thread t returning its update (it
\* neither raised nor interrupted: the run is still inside the graph).
Returned(t, n) ==
    /\ n \in thread[t].running
    /\ n \notin thread'[t].running
    /\ thread'[t].control = "graph"

----------------------------------------------------------------------------
\* C1: after every execution of chatbot that returns, the transcript has
\* gained exactly the message chatbot produced, and the nodes scheduled next
\* are {tools} if that message carries a tool call and none (the run ends)
\* otherwise.
RespondRouting ==
    [][\A t \in Threads :
         Returned(t, "chatbot") =>
            /\ Len(Transcript(t)') = Len(Transcript(t)) + 1
            /\ Last(Transcript(t)').type = "ai"
            /\ NextNodes(t)' = IF IsToolRequest(Last(Transcript(t)'))
                               THEN {"tools"} ELSE {}]_vars

\* A run that chatbot has just routed to tools.
RespondRoutingWitness ==
    \E t \in Threads :
        /\ thread[t].control = "graph"
        /\ thread[t].running = {}
        /\ NextNodes(t) = {"tools"}
        /\ IsToolRequest(Last(Transcript(t)))

\* C2: whenever tools returns (no interrupt, no error) the only node
\* scheduled next is chatbot.
ToolsRouting ==
    [][\A t \in Threads :
         Returned(t, "tools") => NextNodes(t)' = {"chatbot"}]_vars

\* A run in which tools has just returned its message.
ToolsRoutingWitness ==
    \E t \in Threads :
        /\ thread[t].control = "graph"
        /\ thread[t].running = {}
        /\ NextNodes(t) = {"chatbot"}
        /\ Last(Transcript(t)).type = "tool"

\* C3: every step leaves each thread's earlier transcript as a prefix of
\* its new transcript.
TranscriptAppendOnly ==
    [][\A t \in Threads : IsPrefix(Transcript(t), Transcript(t)')]_vars

\* A thread whose transcript went through respond, suspension, resume and a
\* second respond.
TranscriptAppendOnlyWitness ==
    \E t \in Threads :
        /\ Len(Transcript(t)) >= 4
        /\ \E i \in 2..Len(Transcript(t)) :
              /\ Transcript(t)[i].type = "tool"
              /\ Transcript(t)[i].content = <<"Correct">>
              /\ Transcript(t)[i - 1].tool_calls[1].name = "human_assistance"

\* Positions of the assistant messages after position i, the end of the
\* round that message i opens, and the tool messages inside that round.
AiAfter(T, i) == {j \in (i + 1)..Len(T) : T[j].type = "ai"}

RoundEnd(T, i) ==
    IF AiAfter(T, i) = {} THEN Len(T) + 1
    ELSE CHOOSE j \in AiAfter(T, i) : \A k \in AiAfter(T, i) : j <= k

FollowUps(T, i) == {k \in (i + 1)..(RoundEnd(T, i) - 1) : T[k].type = "tool"}

\* chatbot has started again after message i of thread t was appended.
RespondedAfter(t, i) ==
    AiAfter(Transcript(t), i) # {} \/ "chatbot" \in thread[t].running

\* C4: between a chatbot step that appended a tool request and the next
\* chatbot step of the thread, exactly one tool message is appended.
OneFollowUpPerRequest ==
    \A t \in Threads : \A i \in 1..Len(Transcript(t)) :
        (IsToolRequest(Transcript(t)[i]) /\ RespondedAfter(t, i))
            => Cardinality(FollowUps(Transcript(t), i)) = 1

\* The step just taken is the tools node of thread t running the approval
\* tool in a run that carries no resume value.
AsksHuman(t) ==
    /\ "tools" \in thread[t].running
    /\ thread'[t] # thread[t]
    /\ thread[t].resume = <<>>
    /\ Last(Transcript(t)).tool_calls # <<>>
    /\ Last(Transcript(t)).tool_calls[1].name = "human_assistance"

\* C5: the approval tool suspends before it produces anything: the step
\* returns control to the caller with an interrupt, leaves messages, name
\* and birthday as they were, records the review payload against the
\* checkpoint saved under the thread id, and the transcript holds no tool
\* message for the pending call.
SuspendsBeforeResult ==
    [][\A t \in Threads :
         AsksHuman(t) =>
            LET call == Last(Transcript(t)).tool_calls[1]
            IN /\ thread'[t].control = "caller"
               /\ thread'[t].outcome = "interrupt"
               /\ thread'[t].running = {}
               /\ Saved(t)' # <<>>
               /\ Values(t)' = Values(t)
               /\ NextNodes(t)' = {"tools"}
               /\ Pending(t)' =
                    {[id |-> call.id,
                      value |-> [question |-> "Is this correct?",
                                 name |-> call.args.name,
                                 birthday |-> call.args.birthday]]}
               /\ \A k \in 1..Len(Transcript(t)') :
                     Transcript(t)'[k].tool_call_id # call.id]_vars

\* A suspended thread whose name still is the one an earlier correction
\* stored, while the pending call proposes another.
SuspendsBeforeResultWitness ==
    \E t \in Threads :
        /\ thread[t].control = "caller"
        /\ thread[t].outcome = "interrupt"
        /\ \E p \in Pending(t) :
              /\ "name" \in DOMAIN Values(t)
              /\ Values(t).name # p.value.name

\* A payload confirms when its "correct" entry starts with y or Y.
Confirms(p) ==
    /\ "correct" \in DOMAIN p
    /\ p["correct"] # <<>>
    /\ p["correct"][1] \in {"y", "Y"}

\* The step just taken is the tools node of thread t completing the
\* approval tool with the resume value of the run.
ResumedTool(t) ==
    /\ "tools" \in thread[t].running
    /\ thread'[t] # thread[t]
    /\ thread[t].resume # <<>>
    /\ Pending(t) # {}

\* C6: resuming with a confirming payload appends exactly one tool message
\* with content "Correct" and stores the name and birthday the model
\* proposed, whatever name or birthday the payload carries.
ConfirmationPath ==
    [][\A t \in Threads :
         (ResumedTool(t) /\ Confirms(thread[t].resume[1])) =>
            LET call == Last(Transcript(t)).tool_calls[1]
            IN /\ Len(Transcript(t)') = Len(Transcript(t)) + 1
               /\ IsPrefix(Transcript(t), Transcript(t)')
               /\ Last(Transcript(t)').type = "tool"
               /\ Last(Transcript(t)').content = <<"Correct">>
               /\ Values(t)'.name = call.args.name
               /\ Values(t)'.birthday = call.args.birthday]_vars

\* The approval tool is about to complete with a confirming payload that
\* also carries another name and birthday.
ConfirmationPathWitness ==
    \E t \in Threads :
        /\ "tools" \in thread[t].running
        /\ Pending(t) # {}
        /\ thread[t].resume # <<>>
        /\ Confirms(thread[t].resume[1])
        /\ {"name", "birthday"} \subseteq DOMAIN thread[t].resume[1]

\* The step just taken is the caller resuming thread t while an interrupt
\* is pending for it.
ResumesPending(t) ==
    /\ thread[t].control = "caller"
    /\ thread'[t].control = "graph"
    /\ thread'[t].resume # <<>>
    /\ Pending(t) # {}

\* C7: a resume for a thread with a pending interrupt schedules the tools
\* node again on the saved state; there the interrupt returns the resume
\* payload instead of suspending, the tool appends its one message for the
\* pending call (built from that payload) and chatbot is scheduled next.
ResumeCompletesTool ==
    [][\A t \in Threads :
         /\ ResumesPending(t) =>
               /\ NextNodes(t)' = {"tools"}
               /\ Values(t)' = Values(t)
               /\ Pending(t)' = Pending(t)
         /\ ResumedTool(t) =>
               LET payload == thread[t].resume[1]
                   call == Last(Transcript(t)).tool_calls[1]
               IN /\ thread'[t].control = "graph"
                  /\ thread'[t].running = {}
                  /\ Pending(t)' = {}
                  /\ Len(Transcript(t)') = Len(Transcript(t)) + 1
                  /\ Last(Transcript(t)').type = "tool"
                  /\ Last(Transcript(t)').tool_call_id = call.id
                  /\ Last(Transcript(t)').content =
                        IF Confirms(payload) THEN <<"Correct">>
                        ELSE <<"Made a correction: ", payload>>
                  /\ NextNodes(t)' = {"chatbot"}]_vars

\* A resumed run whose tool has completed: the correction message is in the
\* transcript and chatbot is scheduled.
ResumeCompletesToolWitness ==
    \E t \in Threads :
        /\ thread[t].control = "graph"
        /\ NextNodes(t) = {"chatbot"}
        /\ Pending(t) = {}
        /\ Last(Transcript(t)).type = "tool"
        /\ Last(Transcript(t)).content # <<"Correct">>
        /\ Last(Transcript(t)).content[1] = "Made a correction: "

\* C8: no checkpoint ever holds more than one pending interrupt.
OnePendingSuspension ==
    \A k \in DOMAIN memory : Cardinality(memory[k].interrupts) <= 1

\* A thread suspended for the second time: the first suspension was
\* abandoned by a new user input, and one interrupt is pending.
OnePendingSuspensionWitness ==
    \E t \in Threads :
        /\ Cardinality(Pending(t)) = 1
        /\ Cardinality({i \in 1..Len(Transcript(t)) :
                          IsToolRequest(Transcript(t)[i])}) = 2
        /\ \A i \in 1..Len(Transcript(t)) : Transcript(t)[i].type # "tool"

\* C9: a node of a thread starts only when no node of that thread is
\* executing, so at most one node of a thread executes at a time.
OneNodeAtATime ==
    [][\A t \in Threads :
         (thread'[t].running # thread[t].running /\ thread'[t].running # {})
            => /\ thread[t].running = {}
               /\ Cardinality(thread'[t].running) = 1]_vars

\* chatbot executing for the second time in a thread, after tools returned.
OneNodeAtATimeWitness ==
    \E t \in Threads :
        /\ thread[t].running = {"chatbot"}
        /\ Transcript(t) # <<>>
        /\ Last(Transcript(t)).type = "tool"

\* Every step thread-local state l can take by itself.
AloneNext(l) ==
    StreamSteps(l) \cup ResumeSteps(l) \cup BeginSteps(l, "chatbot")
        \cup BeginSteps(l, "tools") \cup ChatbotSteps(l)
        \cup ChatbotFailSteps(l) \cup ToolsSteps(l) \cup ToolsFailSteps(l)
        \cup EndSteps(l)

\* C10: in every step at most one thread's state (checkpoint, pending
\* interrupt and run) changes, and it changes to a state that thread could
\* have stepped to from its own state alone; so each thread's history in an
\* interleaving is a history it has when running alone.
ThreadsIndependent ==
    [][\A t \in Threads :
         \/ Local(t)' = Local(t)
         \/ /\ Local(t)' \in AloneNext(Local(t))
            /\ \A u \in Threads \ {t} : Local(u)' = Local(u)]_vars

\* Two threads with different histories side by side: one suspended, the
\* other ended after a plain answer.
ThreadsIndependentWitness ==
    \E t, u \in Threads :
        /\ t # u
        /\ thread[t].outcome = "interrupt"
        /\ Pending(t) # {}
        /\ thread[u].outcome = "end"
        /\ Len(Transcript(u)) = Len(Transcript(t))
        /\ Transcript(u) # Transcript(t)

\* The step just taken is chatbot of thread t ending without a message:
\* the model call, or the assertion after it, raised.
ChatbotRaised(t) ==
    /\ "chatbot" \in thread[t].running
    /\ "chatbot" \notin thread'[t].running
    /\ Transcript(t)' = Transcript(t)

\* C11: when the model call of chatbot fails the run ends at once with the
\* error at the caller: the checkpoint (transcript included) is as before
\* the call, no node is running, and from there only a new call of the
\* caller moves the thread, without a model call of its own.
ModelFailureTerminal ==
    [][\A t \in Threads :
         /\ ChatbotRaised(t) =>
               /\ thread'[t].control = "caller"
               /\ thread'[t].outcome \in {"ModelError", "AssertionError"}
               /\ thread'[t].running = {}
               /\ Saved(t)' = Saved(t)
               /\ calls' = calls
         /\ (thread[t].outcome = "ModelError" /\ thread'[t] # thread[t]) =>
               /\ thread[t].control = "caller"
               /\ thread[t].running = {}
               /\ thread'[t].control = "graph"
               /\ thread'[t].running = {}
               /\ calls' = calls]_vars

\* A turn ended by a failed model call on its second respond step.
ModelFailureTerminalWitness ==
    \E t \in Threads :
        /\ thread[t].control = "caller"
        /\ thread[t].outcome = "ModelError"
        /\ NextNodes(t) = {"chatbot"}
        /\ Transcript(t) # <<>>
        /\ Last(Transcript(t)).type = "tool"

\* The step just taken is the tools node of thread t working on a call of
\* the search tool.
SearchStep(t) ==
    /\ "tools" \in thread[t].running
    /\ thread'[t] # thread[t]
    /\ Last(Transcript(t)).tool_calls # <<>>
    /\ Last(Transcript(t)).tool_calls[1].name = "duckduckgo_search"

\* The search step ended with the error at the caller, nothing appended.
EndedInError(t) ==
    /\ thread'[t].control = "caller"
    /\ thread'[t].outcome = "ToolError"
    /\ thread'[t].running = {}
    /\ Saved(t)' = Saved(t)

\* The search step appended one tool message of the given status for its
\* call and scheduled chatbot.
Answered(t, status) ==
    /\ thread'[t].control = "graph"
    /\ Len(Transcript(t)') = Len(Transcript(t)) + 1
    /\ IsPrefix(Transcript(t), Transcript(t)')
    /\ Last(Transcript(t)').type = "tool"
    /\ Last(Transcript(t)').status = status
    /\ Last(Transcript(t)').tool_call_id = Last(Transcript(t)).tool_calls[1].id
    /\ NextNodes(t)' = {"chatbot"}

\* C12 as claimed: a tool that raises always ends the turn with the error,
\* so no search step ever answers with an error message.
ToolErrorAlwaysTerminal ==
    [][\A t \in Threads :
         SearchStep(t) => (Answered(t, "success") \/ EndedInError(t))]_vars

\* C12 as amended: a tool that raises is never dropped: either its error
\* becomes the one tool message of the call and chatbot runs next, or the
\* turn ends with the error and nothing appended.
ToolErrorOutcome ==
    [][\A t \in Threads :
         SearchStep(t) =>
            \/ Answered(t, "success")
            \/ Answered(t, "error")
            \/ EndedInError(t)]_vars

\* A run in which the error of the search tool became its tool message.
ToolErrorOutcomeWitness ==
    \E t \in Threads :
        /\ thread[t].control = "graph"
        /\ NextNodes(t) = {"chatbot"}
        /\ Last(Transcript(t)).type = "tool"
        /\ Last(Transcript(t)).status = "error"

\* Number of messages of a type in a transcript.
Count(T, type) == Cardinality({i \in 1..Len(T) : T[i].type = type})

\* C13: in a thread with a single user message, the second respond step
\* starts on the transcript [user, tool request, tool message]; a run ends
\* only right after a chatbot message without a tool call; and at the end
\* the transcript of k tool rounds has 2k+2 messages.
ToolRoundScenario ==
    \A t \in Threads :
        LET T == Transcript(t)
        IN /\ ("chatbot" \in thread[t].running
                 /\ Count(T, "human") = 1 /\ Count(T, "ai") = 1) =>
                 /\ Len(T) = 3
                 /\ T[1].type = "human"
                 /\ IsToolRequest(T[2])
                 /\ T[3].type = "tool"
                 /\ T[3].tool_call_id = T[2].tool_calls[1].id
           /\ thread[t].outcome = "end" =>
                 /\ Last(T).type = "ai"
                 /\ ~IsToolRequest(Last(T))
           /\ (thread[t].outcome = "end" /\ Count(T, "human") = 1) =>
                 /\ Len(T) = 2 * Count(T, "tool") + 2
                 /\ Count(T, "ai") = Count(T, "tool") + 1

\* A turn that ended after one tool round: four messages.
ToolRoundScenarioWitness ==
    \E t \in Threads :
        /\ thread[t].outcome = "end"
        /\ Count(Transcript(t), "human") = 1
        /\ Count(Transcript(t), "tool") = 1
        /\ Len(Transcript(t)) = 4

\* C14: a new input schedules chatbot and nothing else; a chatbot message
\* without a tool call leaves nothing scheduled, and the only step of such a
\* run is its end, with the checkpoint unchanged; so the turn of a plain
\* reply is respond, end, and adds one assistant message to the transcript.
PlainReplyScenario ==
    [][\A t \in Threads :
         /\ (thread[t].control = "caller" /\ thread'[t].control = "graph"
               /\ Len(Transcript(t)') > Len(Transcript(t))) =>
               /\ NextNodes(t)' = {"chatbot"}
               /\ thread'[t].running = {}
         /\ (Returned(t, "chatbot") /\ ~IsToolRequest(Last(Transcript(t)'))) =>
               /\ NextNodes(t)' = {}
               /\ Transcript(t)' = Append(Transcript(t), Last(Transcript(t)'))
         /\ (thread[t].control = "graph" /\ NextNodes(t) = {}
               /\ thread[t].running = {} /\ thread'[t] # thread[t]) =>
               /\ thread'[t].control = "caller"
               /\ thread'[t].outcome = "end"
               /\ thread'[t].running = {}
               /\ Saved(t)' = Saved(t)]_vars

\* A turn on a single user message that ended after a plain reply.
PlainReplyScenarioWitness ==
    \E t \in Threads :
        /\ thread[t].outcome = "end"
        /\ Len(Transcript(t)) = 2
        /\ Transcript(t)[1].type = "human"
        /\ Transcript(t)[2].type = "ai"
        /\ Transcript(t)[2].tool_calls = <<>>

\* Thread t is suspended: its last stream call returned to the caller with
\* an interrupt that is still pending.
Suspended(t) == thread[t].control = "caller" /\ Pending(t) # {}

CorrectionPath ==
    [][\A t \in Threads :
         (ResumedTool(t) /\ ~Confirms(thread[t].resume[1])) =>
            LET call == Last(Transcript(t)).tool_calls[1]
                payload == thread[t].resume[1]
            IN /\ Len(Transcript(t)') = Len(Transcript(t)) + 1
               /\ IsPrefix(Transcript(t), Transcript(t)')
               /\ Last(Transcript(t)').type = "tool"
               /\ Last(Transcript(t)').tool_call_id = call.id
               /\ Last(Transcript(t)').content
                      = <<"Made a correction: ", payload>>
               /\ Last(Transcript(t)').content # <<"Correct">>
               /\ Values(t)'.name =
                      IF "name" \in DOMAIN payload
                      THEN payload.name ELSE call.args.name
               /\ Values(t)'.birthday =
                      IF "birthday" \in DOMAIN payload
                      THEN payload.birthday ELSE call.args.birthday]_vars

\* A correction with a name and no birthday has been applied: the name is
\* the payload's, the birthday the proposed one.
CorrectionPathWitness ==
    \E t \in Threads :
        /\ Transcript(t) # <<>>
        /\ Last(Transcript(t)).type = "tool"
        /\ Last(Transcript(t)).content[1] = "Made a correction: "
        /\ DOMAIN Last(Transcript(t)).content[2] = {"name"}
        /\ Values(t).name = "n2"
        /\ Values(t).birthday = "b1"

\* C28: no step leaves an assistant message with more than one tool call
\* in a transcript; a chatbot execution that ends in the assertion error
\* leaves the checkpoint, transcript included, as it was; and a tools step
\* appends at most one message.
AtMostOneToolCall ==
    [][\A t \in Threads :
         /\ \A i \in 1..Len(Transcript(t)') :
               Transcript(t)'[i].type = "ai" =>
                   Len(Transcript(t)'[i].tool_calls) <= 1
         /\ ("chatbot" \in thread[t].running
               /\ thread'[t].outcome = "AssertionError") =>
               /\ Saved(t)' = Saved(t)
               /\ thread'[t].control = "caller"
         /\ "tools" \in thread[t].running =>
               Len(Transcript(t)') <= Len(Transcript(t)) + 1]_vars

\* A run ended by the assertion of chatbot after a tool round: the
\* transcript ends with the tool message, the reply was not appended.
AtMostOneToolCallWitness ==
    \E t \in Threads :
        /\ thread[t].outcome = "AssertionError"
        /\ thread[t].control = "caller"
        /\ Len(Transcript(t)) = 3
        /\ Last(Transcript(t)).type = "tool"

(***************************************************************************)
(* The WatsonX adapter: WatsonXAgentModel of watsonx_integration.py.       *)
(* A dictionary is a function on its keys; None and the empty dictionary   *)
(* are both <<>>, the code only tests them for truth.                      *)
(***************************************************************************)

\* Roles of the abstract messages: the four the adapter maps and one it
\* does not.
Roles == {"system", "user", "assistant", "tool", "developer"}

Contents == {"a", "b"}

\* Abstract messages: role and content, and for one kind a name attribute.
AbstractMessages ==
    {[role |-> r, content |-> c] : r \in Roles, c \in Contents}
        \cup {[role |-> "tool", content |-> "a", name |-> "lookup"]}

MessageLists ==
    UNION {[1..n -> AbstractMessages] : n \in 0..MaxMessages}

role_mapping_tool_assistant(role) ==
    CASE role = "system" -> "system"
      [] role = "user" -> "user"
      [] role = "assistant" -> "assistant"
      [] role = "tool" -> "assistant"
      [] OTHER -> role

\* role_mapping.get(msg.role, msg.role)
role_mapping(role) ==
    CASE role = "system" -> "system"
      [] role = "user" -> "user"
      [] role = "assistant" -> "assistant"
      [] role = "tool" -> "function"
      [] OTHER -> role

\* One wire-format message: role, content, and name if the message has one.
WireMessage(msg) ==
    [k \in {"role", "content"} \cup (DOMAIN msg \cap {"name"}) |->
        CASE k = "role" -> role_mapping(msg.role)
          [] k = "content" -> msg.content
          [] OTHER -> msg.name]

_convert_messages_reversed(messages) ==
    [i \in 1..Len(messages) |-> WireMessage(messages[Len(messages) + 1 - i])]

_convert_messages(messages) ==
    [i \in 1..Len(messages) |-> WireMessage(messages[i])]

\* What a call returns or raises.
Returned_(value) == [raised |-> FALSE, value |-> value]

Raised(error) == [raised |-> TRUE, error |-> error]

ModelResponse(content, function_call, finish_reason) ==
    [content |-> content, role |-> "assistant",
     function_call |-> function_call, finish_reason |-> finish_reason]

Usage(prompt_tokens, completion_tokens, total_tokens) ==
    [prompt_tokens |-> prompt_tokens,
     completion_tokens |-> completion_tokens,
     total_tokens |-> total_tokens]

\* The usage objects an endpoint response may carry, and the responses
\* with and without one.
UsageObjects ==
    {<<>>,
     [prompt_tokens |-> 3],
     [completion_tokens |-> 5, total_tokens |-> 8],
     [prompt_tokens |-> 3, completion_tokens |-> 5, total_tokens |-> 8]}

WithUsage(response) ==
    {response}
        \cup {[k \in DOMAIN response \cup {"usage"} |->
                  IF k = "usage" THEN u ELSE response[k]] : u \in UsageObjects}

\* Function-call descriptors of a choice: empty, complete, and one without
\* its arguments.
LookupCall == [name |-> "lookup", arguments |-> "q"]

OtherCall == [name |-> "other", arguments |-> "r"]

FunctionCalls == {<<>>, LookupCall, [name |-> "lookup"]}

\* The message of a choice: content and function_call each present or not.
ChoiceMessages ==
    {[k \in ks |-> IF k = "content" THEN c ELSE fc] :
        ks \in SUBSET {"content", "function_call"},
        c \in {"", "x"}, fc \in FunctionCalls}

SecondChoice == [message |-> [content |-> "y", function_call |-> OtherCall]]

ChoiceLists ==
    {<<>>}
        \cup {<<[message |-> m]>> : m \in ChoiceMessages}
        \cup {<<[message |-> m], SecondChoice>> :
                 m \in {[content |-> "x"], <<>>,
                        [content |-> "x", function_call |-> LookupCall]}}

\* Responses of the chat endpoint; one kind has no choices at all.
ChatResponses ==
    UNION {WithUsage(r) : r \in {<<>>} \cup {[choices |-> cs] : cs \in ChoiceLists}}

\* Responses of the generate endpoint.
GenerateResponses ==
    UNION {WithUsage(r) :
              r \in {<<>>, [results |-> <<[generated_text |-> "g"]>>]}}

\* The endpoint call itself raising.
EndpointFailure == [raises |-> "ConnectionError"]

_extract_usage_all_or_nothing(response) ==
    LET usage_data == Get(response, "usage", <<>>)
    IN  IF DOMAIN usage_data =
              {"prompt_tokens", "completion_tokens", "total_tokens"}
        THEN Usage(usage_data.prompt_tokens, usage_data.completion_tokens,
                   usage_data.total_tokens)
        ELSE Usage(0, 0, 0)

_extract_usage(response) ==
    LET usage_data == Get(response, "usage", <<>>)
    IN  Usage(Get(usage_data, "prompt_tokens", 0),
              Get(usage_data, "completion_tokens", 0),
              Get(usage_data, "total_tokens", 0))

_process_chat_response_last_choice(response) ==
    IF "choices" \notin DOMAIN response
    THEN Raised("KeyError")
    ELSE IF response.choices = <<>>
    THEN Raised("IndexError")
    ELSE IF "message" \notin DOMAIN Last(response.choices)
    THEN Raised("KeyError")
    ELSE
        LET message == Last(response.choices).message
            content == Get(message, "content", "")
            function_call == Get(message, "function_call", <<>>)
        IN  IF function_call # <<>>
            THEN IF {"name", "arguments"} \subseteq DOMAIN function_call
                 THEN Returned_(ModelResponse(content,
                          [name |-> function_call.name,
                           arguments |-> function_call.arguments],
                          "function_call"))
                 ELSE Raised("KeyError")
            ELSE Returned_(ModelResponse(content, <<>>, "stop"))

_process_chat_response_wrong_key(response) ==
    IF "choices" \notin DOMAIN response
    THEN Raised("KeyError")
    ELSE IF response.choices = <<>>
    THEN Raised("IndexError")
    ELSE IF "message" \notin DOMAIN response.choices[1]
    THEN Raised("KeyError")
    ELSE
        LET message == response.choices[1].message
            content == Get(message, "text", "")
            function_call == Get(message, "function_call", <<>>)
        IN  IF function_call # <<>>
            THEN IF {"name", "arguments"} \subseteq DOMAIN function_call
                 THEN Returned_(ModelResponse(content,
                          [name |-> function_call.name,
                           arguments |-> function_call.arguments],
                          "function_call"))
                 ELSE Raised("KeyError")
            ELSE Returned_(ModelResponse(content, <<>>, "stop"))

\* response['choices'][0]['message'] raises on a missing key or an empty
\* list; so does reading name or arguments of a descriptor without them.
_process_chat_response(response) ==
    IF "choices" \notin DOMAIN response
    THEN Raised("KeyError")
    ELSE IF response.choices = <<>>
    THEN Raised("IndexError")
    ELSE IF "message" \notin DOMAIN response.choices[1]
    THEN Raised("KeyError")
    ELSE
        LET message == response.choices[1].message
            content == Get(message, "content", "")
            function_call == Get(message, "function_call", <<>>)
        IN  IF function_call # <<>>
            THEN IF {"name", "arguments"} \subseteq DOMAIN function_call
                 THEN Returned_(ModelResponse(content,
                          [name |-> function_call.name,
                           arguments |-> function_call.arguments],
                          "function_call"))
                 ELSE Raised("KeyError")
            ELSE Returned_(ModelResponse(content, <<>>, "stop"))

_process_generate_response(response) ==
    IF "results" \notin DOMAIN response
    THEN Raised("KeyError")
    ELSE Returned_(ModelResponse(response.results[1].generated_text,
                                 <<>>, "stop"))

\* Which endpoint request() calls for a converted message list.
UsesChat(watsonx_messages, allow_text_result) ==
    Len(watsonx_messages) > 1 \/ ~allow_text_result

\* request(): convert, call one endpoint, decode, extract usage; anything
\* raised on the way is re-raised as RuntimeError.  reply is what the
\* endpoint answers, or EndpointFailure.
request(messages, allow_text_result, reply) ==
    LET watsonx_messages == _convert_messages(messages)
        chat == UsesChat(watsonx_messages, allow_text_result)
        call == [op |-> "request", messages |-> messages,
                 allow_text_result |-> allow_text_result,
                 watsonx_messages |-> watsonx_messages,
                 endpoint |-> IF chat THEN "achat" ELSE "agenerate",
                 reply |-> reply]
        answer == [k \in DOMAIN call \cup {"result"} |->
                      IF k = "result" THEN
                          IF ~chat /\ watsonx_messages = <<>>
                          THEN Raised("RuntimeError")
                          ELSE IF reply = EndpointFailure
                          THEN Raised("RuntimeError")
                          ELSE
                              LET model_response ==
                                      IF chat
                                      THEN _process_chat_response(reply)
                                      ELSE _process_generate_response(reply)
                              IN  IF model_response.raised
                                  THEN Raised("RuntimeError")
                                  ELSE Returned_(
                                      [response |-> model_response.value,
                                       usage |-> _extract_usage(reply)])
                      ELSE call[k]]
    IN  answer

\* A chat response whose first choice echoes the content of a wire record.
EchoResponse(wire) ==
    [choices |-> <<[message |-> [role |-> "assistant",
                                 content |-> wire.content]]>>]

\* The answers the endpoint of a request can give.
Replies_(messages, allow_text_result) ==
    IF UsesChat(_convert_messages(messages), allow_text_result)
    THEN ChatResponses \cup {EndpointFailure}
            \cup {EchoResponse(_convert_messages(messages)[i]) :
                      i \in 1..Len(messages)}
    ELSE IF messages = <<>> THEN {EndpointFailure}
    ELSE GenerateResponses \cup {EndpointFailure}

Request ==
    /\ adapter = NoCall
    /\ \E messages \in MessageLists, allow_text_result \in BOOLEAN :
         \E reply \in Replies_(messages, allow_text_result) :
            adapter' = request(messages, allow_text_result, reply)
    /\ UNCHANGED <<memory, thread, inputs, resumes, calls, streamed, provider, db, turn>>

NextAdapter == Request

SpecAdapter == Init /\ [][NextAdapter]_vars

(***************************************************************************)
(* Claims about the adapter's request path.                                *)
(***************************************************************************)

\* C15: the converted list has the length of the transcript, and its i-th
\* record carries the content of the i-th message, and a name exactly when
\* that message has one: nothing is dropped, duplicated, split or reordered.
ConversionKeepsOrder ==
    adapter.op = "request" =>
        /\ Len(adapter.watsonx_messages) = Len(adapter.messages)
        /\ \A i \in 1..Len(adapter.messages) :
             /\ adapter.watsonx_messages[i].content = adapter.messages[i].content
             /\ ("name" \in DOMAIN adapter.watsonx_messages[i])
                    = ("name" \in DOMAIN adapter.messages[i])

\* A request on two messages of different content.
ConversionKeepsOrderWitness ==
    /\ adapter.op = "request"
    /\ Len(adapter.messages) = 2
    /\ adapter.messages[1].content # adapter.messages[2].content
    /\ Len(adapter.watsonx_messages) = 2

\* C16 as stated: system, user and assistant keep their role, tool becomes
\* assistant, and the content is carried over unchanged.
ToolSentAsAssistant ==
    adapter.op = "request" =>
        \A i \in 1..Len(adapter.messages) :
            LET msg == adapter.messages[i]
                wire == adapter.watsonx_messages[i]
            IN  /\ msg.role \in {"system", "user", "assistant"} =>
                       wire.role = msg.role
                /\ msg.role = "tool" => wire.role = "assistant"
                /\ wire.content = msg.content

\* C16 amended: system, user and assistant keep their role, tool becomes
\* function, any other role is passed through unchanged, and the content is
\* carried over unchanged.
ToolSentAsFunction ==
    adapter.op = "request" =>
        \A i \in 1..Len(adapter.messages) :
            LET msg == adapter.messages[i]
                wire == adapter.watsonx_messages[i]
            IN  /\ msg.role # "tool" => wire.role = msg.role
                /\ msg.role = "tool" => wire.role = "function"
                /\ wire.content = msg.content

\* A request whose transcript has a tool message after a user message.
ToolSentAsFunctionWitness ==
    /\ adapter.op = "request"
    /\ Len(adapter.messages) = 2
    /\ adapter.messages[1].role = "user"
    /\ adapter.messages[2].role = "tool"
    /\ adapter.watsonx_messages[2].role = "function"

\* The usage object of the reply of a request, empty when it has none.
ReplyUsage == Get(adapter.reply, "usage", <<>>)

\* The reply of a request with the usage object u put in.
ReplyWith(u) ==
    [k \in DOMAIN adapter.reply \cup {"usage"} |->
        IF k = "usage" THEN u ELSE adapter.reply[k]]

\* C17: a request that returns reports, for each of the three counters, the
\* value of the reply's usage object if it has that counter and 0 if not,
\* each independently of the others; with no usage object that is (0, 0, 0),
\* and the absence never makes the request raise.
UsageDefaultsToZero ==
    /\ (adapter.op = "request" /\ ~adapter.result.raised) =>
        /\ \A k \in {"prompt_tokens", "completion_tokens", "total_tokens"} :
             adapter.result.value.usage[k] =
                 IF k \in DOMAIN ReplyUsage THEN ReplyUsage[k] ELSE 0
        /\ "usage" \notin DOMAIN adapter.reply =>
             adapter.result.value.usage = Usage(0, 0, 0)
    /\ (adapter.op = "request" /\ adapter.result.raised
           /\ adapter.reply # EndpointFailure
           /\ "usage" \notin DOMAIN adapter.reply) =>
        \A u \in UsageObjects :
            request(adapter.messages, adapter.allow_text_result,
                    ReplyWith(u)).result.raised

\* A request that returned on a reply whose usage object has only the
\* prompt counter.
UsageDefaultsToZeroWitness ==
    /\ adapter.op = "request"
    /\ ~adapter.result.raised
    /\ DOMAIN ReplyUsage = {"prompt_tokens"}
    /\ adapter.result.value.usage = Usage(3, 0, 0)

\* C18 as stated: a chat reply without choices makes request return an
\* assistant response of empty content, with the usage defaults, and not
\* raise.
MissingChoicesIsEmptyContent ==
    (adapter.op = "request" /\ adapter.endpoint = "achat"
        /\ adapter.reply # EndpointFailure
        /\ "choices" \notin DOMAIN adapter.reply) =>
        /\ ~adapter.result.raised
        /\ adapter.result.value.response.content = ""
        /\ adapter.result.value.response.role = "assistant"

\* The first choice of the chat reply of a request.
FirstMessage == adapter.reply.choices[1].message

\* C19: a request on the chat endpoint that returns carries the content of
\* the first choice, "" if that has none; it is a tool invocation, with the
\* name and arguments of the first choice's descriptor and finish reason
\* function_call, exactly if that descriptor is present and not empty, and
\* otherwise a plain assistant message with finish reason stop.
FirstChoiceDecides ==
    (adapter.op = "request" /\ adapter.endpoint = "achat"
        /\ ~adapter.result.raised) =>
        LET response == adapter.result.value.response
            descriptor == Get(FirstMessage, "function_call", <<>>)
        IN  /\ response.content = Get(FirstMessage, "content", "")
            /\ response.role = "assistant"
            /\ (response.finish_reason = "function_call")
                   = (descriptor # <<>>)
            /\ descriptor # <<>> =>
                   /\ response.function_call.name = descriptor.name
                   /\ response.function_call.arguments = descriptor.arguments
            /\ descriptor = <<>> =>
                   /\ response.finish_reason = "stop"
                   /\ response.function_call = <<>>

\* A returned request whose reply has two choices, the first plain text and
\* the second a function call.
FirstChoiceDecidesWitness ==
    /\ adapter.op = "request"
    /\ adapter.endpoint = "achat"
    /\ ~adapter.result.raised
    /\ Len(adapter.reply.choices) = 2
    /\ "function_call" \notin DOMAIN FirstMessage
    /\ adapter.result.value.response.finish_reason = "stop"
    /\ adapter.result.value.response.content = "x"

\* The messages of the request are plain user or assistant text.
PlainTranscript ==
    \A i \in 1..Len(adapter.messages) :
        /\ adapter.messages[i].role \in {"user", "assistant"}
        /\ "name" \notin DOMAIN adapter.messages[i]

\* C25: when the transcript of a request is plain user/assistant text and
\* the chat endpoint answers with the echo of the i-th wire record, request
\* returns a message whose content is the content of the i-th message of
\* the transcript.
EchoRoundTrip ==
    (adapter.op = "request" /\ adapter.endpoint = "achat" /\ PlainTranscript) =>
        \A i \in 1..Len(adapter.messages) :
            adapter.reply = EchoResponse(adapter.watsonx_messages[i]) =>
                /\ ~adapter.result.raised
                /\ adapter.result.value.response.content
                       = adapter.messages[i].content
                /\ adapter.result.value.response.finish_reason = "stop"

\* A request on a user and an assistant message of different text, answered
\* with the echo of the second.
EchoRoundTripWitness ==
    /\ adapter.op = "request"
    /\ adapter.endpoint = "achat"
    /\ Len(adapter.messages) = 2
    /\ PlainTranscript
    /\ adapter.messages[1].role = "user"
    /\ adapter.messages[2].role = "assistant"
    /\ adapter.messages[1].content # adapter.messages[2].content
    /\ adapter.reply = EchoResponse(adapter.watsonx_messages[2])
    /\ ~adapter.result.raised
    /\ adapter.result.value.response.content = adapter.messages[2].content

(***************************************************************************)
(* The streamed response: WatsonXStreamedResponse.  Text is a sequence of  *)
(* characters, so that "".join is concatenation.                           *)
(***************************************************************************)

\* The deltas a chunk of the chat stream may carry: content missing, empty
\* or text, and a function-call fragment or none.
DeltaContents == {<<>>, <<"H", "e", "l">>, <<"l", "o">>}

Deltas ==
    {[k \in ks |-> IF k = "content" THEN c ELSE fc] :
        ks \in SUBSET {"content", "function_call"},
        c \in DeltaContents, fc \in {LookupCall, OtherCall}}

\* Chunks that carry usage data next to their choices.
UsageChunks ==
    {[choices |-> <<[delta |-> <<>>]>>,
      usage |-> [prompt_tokens |-> 3, completion_tokens |-> 5,
                 total_tokens |-> 8]],
     [choices |-> <<[delta |-> [content |-> <<"l", "o">>]]>>,
      usage |-> [prompt_tokens |-> 3, completion_tokens |-> 2,
                 total_tokens |-> 5]]}

Chunks == {[choices |-> <<[delta |-> d]>>] : d \in Deltas} \cup UsageChunks

ChunkLists == UNION {[1..n -> Chunks] : n \in 0..MaxChunks}

ModelResponseStreamEvent(content, function_call) ==
    [content |-> content, role |-> "assistant",
     function_call |-> function_call, finish_reason |-> <<>>]

\* WatsonXStreamedResponse(stream): the generator and the empty collectors;
\* events is what iteration has yielded so far, result what get() last
\* returned; iterating says that an iteration is under way, and pass whether
\* it is the first over this object or a later one.
WatsonXStreamedResponse(watsonx_stream_generator) ==
    [op |-> "stream",
     chunks |-> watsonx_stream_generator,
     _stream_generator |-> watsonx_stream_generator,
     _collected_content |-> <<>>,
     _function_calls |-> <<>>,
     _usage |-> Usage(0, 0, 0),
     events |-> <<>>,
     result |-> <<>>,
     iterating |-> FALSE,
     pass |-> "none"]

__aiter___yields_empty(self) ==
    LET chunk == Head(self._stream_generator)
        delta == chunk.choices[1].delta
        function_call == Get(delta, "function_call", <<>>)
        content == Get(delta, "content", <<>>)
        called == function_call # <<>>
        afterCall ==
            IF called
            THEN [self EXCEPT
                    !._function_calls = Append(@, function_call),
                    !.events = Append(@,
                        ModelResponseStreamEvent(<<>>, function_call))]
            ELSE self
        afterContent ==
            [afterCall EXCEPT
                !._collected_content = Append(@, content),
                !.events = Append(@, ModelResponseStreamEvent(content, <<>>))]
    IN  [afterContent EXCEPT !._stream_generator = Tail(@)]

\* One round of the loop of __aiter__: take the next chunk; on a function
\* call in its delta collect it and yield an event for it; on non-empty
\* content collect it and yield an event for it.
__aiter__(self) ==
    LET chunk == Head(self._stream_generator)
        delta == chunk.choices[1].delta
        function_call == Get(delta, "function_call", <<>>)
        content == Get(delta, "content", <<>>)
        afterCall ==
            IF function_call # <<>>
            THEN [self EXCEPT
                    !._function_calls = Append(@, function_call),
                    !.events = Append(@,
                        ModelResponseStreamEvent(<<>>, function_call))]
            ELSE self
        afterContent ==
            IF content # <<>>
            THEN [afterCall EXCEPT
                    !._collected_content = Append(@, content),
                    !.events = Append(@,
                        ModelResponseStreamEvent(content, <<>>))]
            ELSE afterCall
    IN  [afterContent EXCEPT !._stream_generator = Tail(@)]

\* "".join(parts)
RECURSIVE join(_)
join(parts) ==
    IF parts = <<>> THEN <<>> ELSE Head(parts) \o join(Tail(parts))

get_first_call(self) ==
    LET content == join(self._collected_content)
    IN  IF self._function_calls # <<>>
        THEN ModelResponse(content, Head(self._function_calls),
                           "function_call")
        ELSE ModelResponse(content, <<>>, "stop")

\* get(): the collected content joined, and the last function call if any.
get(self) ==
    LET content == join(self._collected_content)
    IN  IF self._function_calls # <<>>
        THEN ModelResponse(content, Last(self._function_calls),
                           "function_call")
        ELSE ModelResponse(content, <<>>, "stop")

\* usage(): the counters of the object.
usage(self) == self._usage

\* request_stream on the chat endpoint: the stream is wrapped, not read.
RequestStream ==
    /\ streamed = NoStream
    /\ \E stream \in ChunkLists :
          streamed' = WatsonXStreamedResponse(stream)
    /\ UNCHANGED <<memory, thread, inputs, resumes, calls, adapter, provider, db, turn>>

begin_rewinds(self) ==
    [self EXCEPT !.iterating = TRUE,
                 !.pass = IF @ = "none" THEN "first" ELSE "again",
                 !._stream_generator = self.chunks]

\* Calling __aiter__ makes a new iteration over the same upstream generator,
\* which is where the earlier consumption left it.
begin(self) ==
    [self EXCEPT !.iterating = TRUE,
                 !.pass = IF @ = "none" THEN "first" ELSE "again"]

\* The consumer starts iterating the response: the first time, or again
\* after an iteration has ended.
Iterate ==
    /\ streamed.op = "stream"
    /\ ~streamed.iterating
    /\ streamed' = begin(streamed)
    /\ UNCHANGED <<memory, thread, inputs, resumes, calls, adapter, provider, db, turn>>

\* The consumer asks the iteration for more and the generator has a chunk.
NextChunk ==
    /\ streamed.op = "stream"
    /\ streamed.iterating
    /\ streamed._stream_generator # <<>>
    /\ streamed' = __aiter__(streamed)
    /\ UNCHANGED <<memory, thread, inputs, resumes, calls, adapter, provider, db, turn>>

\* The consumer asks for more and the upstream generator is exhausted: the
\* loop of __aiter__ is left and the iteration ends.
EndIteration ==
    /\ streamed.op = "stream"
    /\ streamed.iterating
    /\ streamed._stream_generator = <<>>
    /\ streamed' = [streamed EXCEPT !.iterating = FALSE]
    /\ UNCHANGED <<memory, thread, inputs, resumes, calls, adapter, provider, db, turn>>

\* The consumer calls get(), at any time.
GetResult ==
    /\ streamed.op = "stream"
    /\ streamed' = [streamed EXCEPT !.result = <<get(streamed)>>]
    /\ UNCHANGED <<memory, thread, inputs, resumes, calls, adapter, provider, db, turn>>

NextStream ==
    \/ RequestStream
    \/ Iterate
    \/ NextChunk
    \/ EndIteration
    \/ GetResult

SpecStream == Init /\ [][NextStream]_vars

(***************************************************************************)
(* Claims about the streamed response.                                     *)
(***************************************************************************)

\* The chunks of the stream consumed so far.
Consumed(self) ==
    SubSeq(self.chunks, 1, Len(self.chunks) - Len(self._stream_generator))

ChunkContent(chunk) == Get(chunk.choices[1].delta, "content", <<>>)

HasCall(chunk) == "function_call" \in DOMAIN chunk.choices[1].delta

\* The contents of a chunk list, in order, and those of them not empty.
RECURSIVE ContentsOf(_)
ContentsOf(chunks) ==
    IF chunks = <<>> THEN <<>>
    ELSE <<ChunkContent(Head(chunks))>> \o ContentsOf(Tail(chunks))

RECURSIVE NonEmpty(_)
NonEmpty(parts) ==
    IF parts = <<>> THEN <<>>
    ELSE IF Head(parts) = <<>> THEN NonEmpty(Tail(parts))
    ELSE <<Head(parts)>> \o NonEmpty(Tail(parts))

\* C20: for a stream without tool calls, after every step the events
\* yielded so far are the non-empty contents of the chunks consumed so far,
\* one event each, in chunk order, and none for a chunk of empty or missing
\* content; and get() called after full consumption returns the
\* concatenation of the chunk contents in order.
ContentEventsAndAggregate ==
    [][(streamed'.op = "stream"
           /\ \A i \in 1..Len(streamed'.chunks) : ~HasCall(streamed'.chunks[i]))
        =>
        /\ LET contents == NonEmpty(ContentsOf(Consumed(streamed')))
           IN  /\ Len(streamed'.events) = Len(contents)
               /\ \A i \in 1..Len(contents) :
                     streamed'.events[i] =
                         ModelResponseStreamEvent(contents[i], <<>>)
        /\ (streamed.op = "stream" /\ streamed._stream_generator = <<>>
               /\ streamed'.result # streamed.result) =>
              /\ streamed'.result[1].content
                     = join(ContentsOf(streamed'.chunks))
              /\ streamed'.result[1].finish_reason = "stop"]_vars

\* The stream "Hel", "lo", "" fully consumed: two events and "Hello".
ContentEventsAndAggregateWitness ==
    /\ streamed.op = "stream"
    /\ ContentsOf(streamed.chunks)
           = << <<"H", "e", "l">>, <<"l", "o">>, <<>> >>
    /\ \A i \in 1..3 : ~HasCall(streamed.chunks[i])
    /\ streamed._stream_generator = <<>>
    /\ Len(streamed.events) = 2
    /\ streamed.result = <<ModelResponse(<<"H", "e", "l", "l", "o">>,
                                         <<>>, "stop")>>

\* The function-call fragments of a chunk list, in order.
RECURSIVE FragmentsOf(_)
FragmentsOf(chunks) ==
    IF chunks = <<>> THEN <<>>
    ELSE (IF HasCall(Head(chunks))
          THEN <<Head(chunks).choices[1].delta.function_call>> ELSE <<>>)
             \o FragmentsOf(Tail(chunks))

\* C21: get() called after full consumption returns a tool invocation with
\* finish reason function_call, carrying the fragment of the last chunk that
\* had one and nothing of the earlier fragments, if some chunk had a
\* fragment; and a plain message with finish reason stop if none had.
LastFragmentWins ==
    [][(streamed.op = "stream" /\ streamed._stream_generator = <<>>
           /\ streamed'.result # streamed.result) =>
        LET fragments == FragmentsOf(streamed'.chunks)
            message == streamed'.result[1]
        IN  IF fragments # <<>>
            THEN /\ message.finish_reason = "function_call"
                 /\ message.function_call = Last(fragments)
            ELSE /\ message.finish_reason = "stop"
                 /\ message.function_call = <<>>]_vars

\* A consumed stream with two different fragments, and get() returning the
\* second.
LastFragmentWinsWitness ==
    /\ streamed.op = "stream"
    /\ streamed._stream_generator = <<>>
    /\ FragmentsOf(streamed.chunks) = <<LookupCall, OtherCall>>
    /\ streamed.result # <<>>
    /\ streamed.result[1].function_call = OtherCall
    /\ streamed.result[1].finish_reason = "function_call"

\* The usage data of a chunk list added up, counter by counter.
RECURSIVE Accumulated(_)
Accumulated(chunks) ==
    IF chunks = <<>> THEN Usage(0, 0, 0)
    ELSE LET data == Get(Head(chunks), "usage", <<>>)
             rest == Accumulated(Tail(chunks))
         IN  Usage(Get(data, "prompt_tokens", 0) + rest.prompt_tokens,
                   Get(data, "completion_tokens", 0) + rest.completion_tokens,
                   Get(data, "total_tokens", 0) + rest.total_tokens)

\* C22 as stated: once the stream is fully consumed usage() returns the
\* counters accumulated from the usage data of the consumed chunks, and no
\* step of the consumption makes any of the three counters smaller.
UsageAccumulates ==
    [][streamed'.op = "stream" =>
        /\ streamed'._stream_generator = <<>> =>
              usage(streamed') = Accumulated(streamed'.chunks)
        /\ streamed.op = "stream" =>
              \A k \in {"prompt_tokens", "completion_tokens", "total_tokens"} :
                  usage(streamed')[k] >= usage(streamed)[k]]_vars

\* C23: the upstream generator only ever moves forward, one chunk at a time;
\* events and the aggregate of get() change only when an iteration takes a
\* chunk off it, so every chunk is processed once; an iteration ends only
\* when the generator is exhausted, all chunks consumed; and an iteration
\* over an exhausted generator yields no event and leaves get() as it was,
\* whether it is the first iteration or a later one.
SinglePass ==
    [][streamed.op = "stream" =>
        /\ \/ streamed'._stream_generator = streamed._stream_generator
           \/ /\ streamed._stream_generator # <<>>
              /\ streamed'._stream_generator = Tail(streamed._stream_generator)
        /\ (streamed'.events # streamed.events
               \/ get(streamed') # get(streamed)) =>
              /\ streamed.iterating
              /\ streamed._stream_generator # <<>>
              /\ streamed'._stream_generator = Tail(streamed._stream_generator)
        /\ (streamed.iterating /\ ~streamed'.iterating) =>
              /\ streamed._stream_generator = <<>>
              /\ Consumed(streamed) = streamed.chunks
        /\ (streamed'.pass = "again") =>
              /\ streamed'.events = streamed.events
              /\ get(streamed') = get(streamed)
              /\ streamed'._stream_generator = <<>>]_vars

\* A response over three chunks iterated to the end twice, with get() taken
\* after the second iteration.
SinglePassWitness ==
    /\ streamed.op = "stream"
    /\ Len(streamed.chunks) = 3
    /\ streamed.pass = "again"
    /\ ~streamed.iterating
    /\ Len(streamed.events) = 3
    /\ streamed.result = <<get(streamed)>>

(***************************************************************************)
(* The identity-token provider: fetch_gcp_id_token of utils/gcp_token.py.  *)
(* os.getenv gives None for a variable that is not set: <<>> here, and     *)
(* <<value>> for one that is.                                              *)
(***************************************************************************)

\* Values the environment may give GCP_OLLAMA_ENDPOINT, when it is set.
EndpointValues == {"", "https://a", "https://b"}

Environments ==
    {<<>>} \cup {[GCP_OLLAMA_ENDPOINT |-> v] : v \in EndpointValues}

getenv(environ, key) ==
    IF key \in DOMAIN environ THEN <<environ[key]>> ELSE <<>>

\* `not endpoint`: None or the empty string.
Falsy(value) == value = <<>> \/ value[1] = ""

\* What google.oauth2.id_token.fetch_id_token may do for an audience.
TokenOutcomes == {"token", "DefaultCredentialsError", "TransportError"}

fetch_gcp_id_token_none_only(environ, outcome) ==
    LET endpoint == getenv(environ, "GCP_OLLAMA_ENDPOINT")
    IN  IF endpoint = <<>>
        THEN [endpoint |-> endpoint, requested |-> <<>>,
              result |-> Raised("ValueError")]
        ELSE LET audience == endpoint[1]
             IN  [endpoint |-> endpoint, requested |-> <<audience>>,
                  result |-> IF outcome = "token"
                             THEN Returned_(<<"id_token", audience>>)
                             ELSE Raised(outcome)]

\* fetch_gcp_id_token(): the endpoint read, the token requests made, and
\* what the call returns or raises.
fetch_gcp_id_token(environ, outcome) ==
    LET endpoint == getenv(environ, "GCP_OLLAMA_ENDPOINT")
    IN  IF Falsy(endpoint)
        THEN [endpoint |-> endpoint, requested |-> <<>>,
              result |-> Raised("ValueError")]
        ELSE LET audience == endpoint[1]
             IN  [endpoint |-> endpoint, requested |-> <<audience>>,
                  result |-> IF outcome = "token"
                             THEN Returned_(<<"id_token", audience>>)
                             ELSE Raised(outcome)]

\* The environment of the process is set up differently.
SetEnv ==
    /\ \E environ \in Environments \ {provider.environ} :
          provider' = [provider EXCEPT !.environ = environ]
    /\ UNCHANGED <<memory, thread, inputs, resumes, calls, adapter, streamed, db, turn>>

\* token = fetch_gcp_id_token()
FetchToken ==
    /\ provider.fetches < MaxFetches
    /\ \E outcome \in TokenOutcomes :
          LET call == fetch_gcp_id_token(provider.environ, outcome)
          IN  provider' = [provider EXCEPT
                              !.fetches = @ + 1,
                              !.requests = @ \o call.requested,
                              !.last = <<call>>]
    /\ UNCHANGED <<memory, thread, inputs, resumes, calls, adapter, streamed, db, turn>>

NextToken == SetEnv \/ FetchToken

SpecToken == Init /\ [][NextToken]_vars

\* C24: a call of the provider made while GCP_OLLAMA_ENDPOINT is unset or
\* empty raises ValueError and makes no token request; it returns neither a
\* token nor any other value.
MissingEndpointRaises ==
    [][(provider'.fetches # provider.fetches
           /\ Falsy(getenv(provider.environ, "GCP_OLLAMA_ENDPOINT"))) =>
          /\ provider'.last[1].result = Raised("ValueError")
          /\ provider'.requests = provider.requests]_vars

\* The provider called twice, the second time with the endpoint set to the
\* empty string, with no token request made and ValueError raised.
MissingEndpointRaisesWitness ==
    /\ provider.fetches = 2
    /\ provider.requests = <<>>
    /\ provider.last # <<>>
    /\ provider.last[1].endpoint = <<"">>
    /\ provider.last[1].result = Raised("ValueError")

(***************************************************************************)
(* The database session context: DatabaseSession.session and get_db of    *)
(* db/session.py.  A session is the log of the calls made on it, by the    *)
(* body of the with statement and by the context manager.                  *)
(***************************************************************************)

Entry(by, call, raised) == [by |-> by, call |-> call, raised |-> raised]

\* What the body of a with statement may do with the session, and how it
\* ends: it returns, raises an Exception, or is hit by a BaseException.
\* The third and the last two bodies are load_category_seeds: save and
\* commit, and roll back and raise on an error.
Bodies ==
    {[calls |-> cs, ending |-> e] :
        cs \in {<<>>,
                <<Entry("body", "add", FALSE)>>,
                <<Entry("body", "bulk_save_objects", FALSE),
                  Entry("body", "commit", FALSE)>>},
        e \in {"return", "BodyError", "KeyboardInterrupt"}}
    \cup
    {[calls |-> <<Entry("body", "bulk_save_objects", TRUE),
                  Entry("body", "rollback", FALSE)>>,
      ending |-> "BodyError"],
     [calls |-> <<Entry("body", "bulk_save_objects", FALSE),
                  Entry("body", "commit", TRUE),
                  Entry("body", "rollback", FALSE)>>,
      ending |-> "BodyError"]}

\* `except Exception` catches these; KeyboardInterrupt it does not.
Exceptions == {"BodyError", "CommitError"}

Logged(d, entries) ==
    [d EXCEPT !.sessions[Len(d.sessions)].log = @ \o entries]

\* session = self.SessionLocal(), entered through session() or get_db().
open(d, via) ==
    [d EXCEPT !.sessions = Append(@, [via |-> via, log |-> <<>>,
                                      raised |-> "pending"]),
              !.pc = "body",
              !.error = "none"]

\* yield session: the body runs, and returns or raises into the generator.
body(d, b) ==
    [Logged(d, b.calls) EXCEPT
        !.pc = IF b.ending = "return" THEN "commit"
               ELSE IF b.ending \in Exceptions THEN "except"
               ELSE "finally",
        !.error = IF b.ending = "return" THEN "none" ELSE b.ending]

\* session.commit(), which may raise.
commit(d, fails) ==
    [Logged(d, <<Entry("context", "commit", fails)>>) EXCEPT
        !.pc = IF fails THEN "except" ELSE "finally",
        !.error = IF fails THEN "CommitError" ELSE "none"]

except_swallows(d) ==
    [Logged(d, <<Entry("context", "rollback", FALSE)>>) EXCEPT
        !.pc = "finally", !.error = "none"]

\* except Exception: log, session.rollback(), raise.
except(d) ==
    [Logged(d, <<Entry("context", "rollback", FALSE)>>) EXCEPT
        !.pc = "finally"]

\* finally: session.close(); then the with statement is left, with the
\* error if there is one.
finally(d) ==
    [Logged(d, <<Entry("context", "close", FALSE)>>) EXCEPT
        !.sessions[Len(d.sessions)].raised = d.error,
        !.pc = "idle",
        !.error = "none"]

OpenSession ==
    /\ db.pc = "idle"
    /\ Len(db.sessions) < MaxSessions
    /\ \E via \in {"session", "get_db"} : db' = open(db, via)
    /\ UNCHANGED <<memory, thread, inputs, resumes, calls, adapter, streamed, provider, turn>>

RunBody ==
    /\ db.pc = "body"
    /\ \E b \in Bodies : db' = body(db, b)
    /\ UNCHANGED <<memory, thread, inputs, resumes, calls, adapter, streamed, provider, turn>>

Commit_ ==
    /\ db.pc = "commit"
    /\ \E fails \in BOOLEAN : db' = commit(db, fails)
    /\ UNCHANGED <<memory, thread, inputs, resumes, calls, adapter, streamed, provider, turn>>

Except ==
    /\ db.pc = "except"
    /\ db' = except(db)
    /\ UNCHANGED <<memory, thread, inputs, resumes, calls, adapter, streamed, provider, turn>>

Finally ==
    /\ db.pc = "finally"
    /\ db' = finally(db)
    /\ UNCHANGED <<memory, thread, inputs, resumes, calls, adapter, streamed, provider, turn>>

NextDb == OpenSession \/ RunBody \/ Commit_ \/ Except \/ Finally

SpecDb == Init /\ [][NextDb]_vars

\* The calls the context manager made on a session, in order.
ByContext(session) ==
    SelectSeq(session.log, LAMBDA e : e.by = "context")

Closes(session) ==
    {i \in 1..Len(session.log) :
        session.log[i] = Entry("context", "close", FALSE)}

\* C29: a session whose body returned and whose commit went through got
\* from the context one commit and then the close, and no error comes out;
\* one whose body raised got no commit, a rollback and then the close, and
\* the body's error comes out; one whose commit raised got that one failed
\* commit, a rollback and then the close, and the commit's error comes out;
\* on every path, these and the body hit by a BaseException, the session is
\* closed once, as the last call on it, and it is not closed before the
\* with statement is left.
SessionScope ==
    \A i \in 1..Len(db.sessions) :
        LET session == db.sessions[i]
            context == ByContext(session)
        IN  IF session.raised = "pending"
            THEN Closes(session) = {}
            ELSE /\ Closes(session) = {Len(session.log)}
                 /\ session.raised = "none" =>
                       context = <<Entry("context", "commit", FALSE),
                                   Entry("context", "close", FALSE)>>
                 /\ session.raised = "BodyError" =>
                       context = <<Entry("context", "rollback", FALSE),
                                   Entry("context", "close", FALSE)>>
                 /\ session.raised = "CommitError" =>
                       context = <<Entry("context", "commit", TRUE),
                                   Entry("context", "rollback", FALSE),
                                   Entry("context", "close", FALSE)>>
                 /\ session.raised = "KeyboardInterrupt" =>
                       context = <<Entry("context", "close", FALSE)>>

\* Two sessions used to the end: the commit of the first raised, the second
\* went through get_db with a body that commits itself and returned.
SessionScopeWitness ==
    /\ Len(db.sessions) = 2
    /\ db.pc = "idle"
    /\ db.sessions[1].raised = "CommitError"
    /\ Len(ByContext(db.sessions[1])) = 3
    /\ db.sessions[2].via = "get_db"
    /\ db.sessions[2].raised = "none"
    /\ Len(db.sessions[2].log) = 4

(***************************************************************************)
(* One thread taking turns under the conditions of a run that goes well:   *)
(* the model answers, asking for a tool a given number of times before its *)
(* plain reply; every tool returns; every suspension is resumed.  A stream *)
(* call counts its supersteps against the recursion limit.                 *)
(***************************************************************************)

TurnThread == "t1"

\* What the model of a turn will do: ask left times for call, then reply.
Scripts ==
    {[left |-> k, call |-> c, steps |-> 0] :
        k \in {0, 1, MaxRounds}, c \in {SearchCall, ApprovalCall}}

\* The payload __main__ resumes with.
MainPayload == [name |-> "n2", birthday |-> "b2"]

\* The reply of the model under the script of the turn.
ScriptedReply(message) ==
    IF turn.left > 0
    THEN /\ Len(message.tool_calls) = 1
         /\ message.tool_calls[1].name = turn.call.name
    ELSE message.tool_calls = <<>>

\* Variant: a stream call that has used up its supersteps just ends.
OutOfStepsEndsSteps(l, steps) ==
    IF l.run.control # "graph" \/ l.saved = <<>> THEN {}
    ELSE IF l.saved[1].next = {} \/ l.run.running # {} THEN {}
    ELSE IF steps < RecursionLimit THEN {}
    ELSE {[l EXCEPT !.run.control = "caller",
                    !.run.outcome = "end",
                    !.run.resume = <<>>]}

\* A stream call with tasks left and its supersteps used up raises
\* GraphRecursionError; the checkpoint stays.
OutOfStepsSteps(l, steps) ==
    IF l.run.control # "graph" \/ l.saved = <<>> THEN {}
    ELSE IF l.saved[1].next = {} \/ l.run.running # {} THEN {}
    ELSE IF steps < RecursionLimit THEN {}
    ELSE {[l EXCEPT !.run.control = "caller",
                    !.run.outcome = "GraphRecursionError",
                    !.run.resume = <<>>]}

\* The caller streams a user message to a thread that is not suspended, and
\* the model of the turn is one of the scripts.
TurnStream ==
    /\ Pending(TurnThread) = {}
    /\ Stream(TurnThread)
    /\ turn' \in Scripts
    /\ UNCHANGED <<adapter, streamed, provider, db>>

\* The caller resumes the suspended thread, as __main__ does.
TurnResume ==
    /\ thread[TurnThread].control = "caller"
    /\ Pending(TurnThread) # {}
    /\ \E l \in ResumeSteps(Local(TurnThread)) :
          /\ l.run.resume = <<MainPayload>>
          /\ Commit(TurnThread, l)
    /\ turn' = [turn EXCEPT !.steps = 0]
    /\ UNCHANGED <<inputs, resumes, calls>>
    /\ UNCHANGED <<adapter, streamed, provider, db>>

TurnBeginChatbot ==
    /\ turn.steps < RecursionLimit
    /\ \E l \in BeginSteps(Local(TurnThread), "chatbot") :
          Commit(TurnThread, l)
    /\ UNCHANGED <<inputs, resumes, calls, turn>>
    /\ UNCHANGED <<adapter, streamed, provider, db>>

TurnBeginTools ==
    /\ turn.steps < RecursionLimit
    /\ BeginTools(TurnThread)
    /\ UNCHANGED turn
    /\ UNCHANGED <<adapter, streamed, provider, db>>

TurnChatbot ==
    /\ Chatbot(TurnThread)
    /\ thread'[TurnThread].control = "graph"
    /\ ScriptedReply(Last(Transcript(TurnThread)'))
    /\ turn' = [turn EXCEPT !.left = IF @ > 0 THEN @ - 1 ELSE 0,
                            !.steps = @ + 1]
    /\ UNCHANGED <<adapter, streamed, provider, db>>

TurnTools ==
    /\ Tools(TurnThread)
    /\ turn' = [turn EXCEPT !.steps = @ + 1]
    /\ UNCHANGED <<adapter, streamed, provider, db>>

TurnEnd ==
    /\ EndRun(TurnThread)
    /\ UNCHANGED turn
    /\ UNCHANGED <<adapter, streamed, provider, db>>

OutOfSteps ==
    /\ \E l \in OutOfStepsSteps(Local(TurnThread), turn.steps) :
          Commit(TurnThread, l)
    /\ UNCHANGED <<inputs, resumes, calls, turn>>
    /\ UNCHANGED <<adapter, streamed, provider, db>>

NextTurn ==
    \/ TurnStream
    \/ TurnResume
    \/ TurnBeginChatbot
    \/ TurnBeginTools
    \/ TurnChatbot
    \/ TurnTools
    \/ TurnEnd
    \/ OutOfSteps

\* Whatever the graph can do next it does; the caller resumes a suspended
\* thread; nothing makes the caller start another turn.
SpecTurn ==
    /\ Init
    /\ [][NextTurn]_vars
    /\ WF_vars(TurnResume)
    /\ WF_vars(TurnBeginChatbot)
    /\ WF_vars(TurnBeginTools)
    /\ WF_vars(TurnChatbot)
    /\ WF_vars(TurnTools)
    /\ WF_vars(TurnEnd)
    /\ WF_vars(OutOfSteps)

\* A turn is under way: a stream call is running, or the thread waits
\* suspended for its resume.
InTurn ==
    \/ thread[TurnThread].control = "graph"
    \/ Pending(TurnThread) # {}

AtEnd ==
    /\ thread[TurnThread].control = "caller"
    /\ thread[TurnThread].outcome = "end"

CutOff ==
    /\ thread[TurnThread].control = "caller"
    /\ thread[TurnThread].outcome = "GraphRecursionError"

\* C30 as stated: with a model that comes to its plain reply, tools that
\* return and suspensions that are resumed, a turn under way leads to end.
TurnReachesEnd == InTurn ~> AtEnd

\* C30 amended: under the same conditions a turn under way leads to end or
\* to the stream call being cut off by its recursion limit; end is reached
\* only in a step from a checkpoint whose last message is a reply without a
\* tool call, with nothing left to run, so that a model that asks for a
\* tool every time never reaches end; and the rounds of a turn that is not
\* cut off are as many as the model asks for.
TurnEndsOrIsCutOff ==
    /\ InTurn ~> (AtEnd \/ CutOff)
    /\ [][(~AtEnd /\ AtEnd') =>
            /\ NextNodes(TurnThread) = {}
            /\ Last(Transcript(TurnThread)).type = "ai"
            /\ Last(Transcript(TurnThread)).tool_calls = <<>>
            /\ turn.left = 0]_vars

\* A turn of MaxRounds approval rounds, each resumed, that reached end, in
\* more supersteps than one stream call may take.
TurnEndsOrIsCutOffWitness ==
    /\ AtEnd
    /\ turn.left = 0
    /\ turn.call = ApprovalCall
    /\ Len(Transcript(TurnThread)) = 2 * MaxRounds + 2
    /\ 2 * MaxRounds + 1 > RecursionLimit

====
